---- MODULE Spec2Model ----
(***************************************************************************)
(* Shopify Alt Text Manager (streamlit_app.py, shopify_api.py): the        *)
(* template store, the template renderer, the apply handlers and the       *)
(* session state they act on.                                              *)
(*                                                                         *)
(* Text is modelled as a sequence of tokens.  A token is a TLA+ string     *)
(* standing for a piece of text that the program never takes apart: a      *)
(* word, a blank, a placeholder such as "{title}", a file extension.       *)
(* str.replace, str.lower, str.split, "in" and "+" are computed on these   *)
(* sequences.  Python's None is the token sequence None.                   *)
(***************************************************************************)
EXTENDS Integers, Sequences, FiniteSets, TLC

\* ------------------------------------------------------------------ bounds

\* the clock int(time.time()) takes the values 0..MaxTime
MaxTime == 1

\* a pool holds at most MaxPool templates in the store specification
MaxPool == 2

\* number of the sample templates of each pool that load_sample_templates
\* supplies in the model (the source supplies five per pool)
NumSamples == 1

\* ------------------------------------------------------------------- text

None == << "<None>" >>

Empty == << >>

\* faulty variant of Truthy: every value passes the check
AlwaysTruthy(s) == TRUE

\* bool(s) of a str-or-None value s
Truthy(s) == s # Empty /\ s # None

\* decimal digits of str(n), n in 0..12
Str(n) == << "0", "1", "2", "3", "4", "5", "6", "7", "8", "9", "10", "11", "12" >>[n + 1]

\* faulty variant of ReplaceFrom: only the first occurrence is replaced
ReplaceFirstFrom(s, old, new, i) ==
    LET found == { k \in i..Len(s) : s[k] = old }
        first == CHOOSE k \in found : \A j \in found : k <= j
    IN IF found = { } THEN SubSeq(s, i, Len(s))
       ELSE SubSeq(s, i, first - 1) \o new \o SubSeq(s, first + 1, Len(s))

\* s.replace(old, new) where old is one token and new a token sequence
RECURSIVE ReplaceFrom(_, _, _, _)
ReplaceFrom(s, old, new, i) ==
    IF i > Len(s) THEN Empty
    ELSE (IF s[i] = old THEN new ELSE << s[i] >>) \o ReplaceFrom(s, old, new, i + 1)

Replace(s, old, new) ==
    IF \A i \in 1..Len(s) : s[i] # old THEN s ELSE ReplaceFrom(s, old, new, 1)

\* "sep".join(list)
RECURSIVE Join(_, _)
Join(sep, list) ==
    IF list = << >> THEN Empty
    ELSE IF Len(list) = 1 THEN Head(list)
    ELSE Head(list) \o sep \o Join(sep, Tail(list))

\* str.lower() of one token
LowerTok(t) ==
    CASE t = "Blue" -> "blue"
      [] t = "Denim" -> "denim"
      [] t = "Jacket" -> "jacket"
      [] t = "Acme" -> "acme"
      [] t = "Red" -> "red"
      [] t = "Scarf" -> "scarf"
      [] t = "Old" -> "old"
      [] t = "SKU" -> "sku"
      [] t = "RED" -> "red"
      [] t = "Cotton" -> "cotton"
      [] t = "Corp" -> "corp"
      [] t = "Summer" -> "summer"
      [] t = "Sale" -> "sale"
      [] t = "Special" -> "special"
      [] t = "IMG" -> "img"
      [] OTHER -> t

\* s.lower()
Lower(s) == [i \in 1..Len(s) |-> LowerTok(s[i])]

\* tokens that are white space; " " is the blank, "\t" a tab
IsSpace(t) == t \in { " ", "\t" }

\* tokens that contain the character "."
HasDotTok(t) == t \in { ".jpg", ".png", "." }

\* faulty variant of HasDot: no text is taken to hold a "."
NeverHasDot(s) == FALSE

\* "." in s
HasDot(s) == \E i \in 1..Len(s) : HasDotTok(s[i])

\* a dict key that is not present
NoKey == << "<absent>" >>

\* d.get(key, default) for a field that holds NoKey when the key is absent
Get(v, default) == IF v = NoKey THEN default ELSE v

\* s.split(): the maximal runs of tokens that are not white space
RECURSIVE SplitFrom(_, _)
SplitFrom(s, word) ==
    IF s = Empty THEN (IF word = Empty THEN << >> ELSE << word >>)
    ELSE IF IsSpace(Head(s))
         THEN (IF word = Empty THEN << >> ELSE << word >>) \o SplitFrom(Tail(s), Empty)
         ELSE SplitFrom(Tail(s), Append(word, Head(s)))

Split(s) == SplitFrom(s, Empty)

\* ------------------------------------------------------- variable resolver

common_colors ==
    { "black", "white", "red", "blue", "green", "yellow", "purple", "pink",
      "orange", "brown", "grey", "gray", "silver", "gold", "beige", "navy",
      "teal", "cream", "ivory", "turquoise", "violet", "magenta", "indigo" }

\* the first word of the lower-cased title that is a colour name, else ""
\* (a word made of several tokens is no colour name)
RECURSIVE FirstColor(_)
FirstColor(words) ==
    IF words = << >> THEN Empty
    ELSE IF Len(Head(words)) = 1 /\ Head(words)[1] \in common_colors THEN Head(words)
    ELSE FirstColor(Tail(words))

\* faulty variant of extract_color_from_title: the title is not lower-cased
extract_color_case_sensitive(title) == FirstColor(Split(title))

extract_color_from_title(title) == FirstColor(Split(Lower(title)))

\* the tokens random.choices can produce for {id} (two of the 36^4)
RandomIds == { << "x7k2" >>, << "q0m9" >> }

\* the variables dict of preview_template and apply_template_to_image, as
\* the sequence of its (key, value) items in insertion order; image_index
\* is zero-based
DescriptiveVariables(product, image_index, random_id) ==
    << << "{title}", product.title >>,
       << "{vendor}", product.vendor >>,
       << "{type}", product.type >>,
       << "{tags}", Join(<< ",", " " >>, product.tags) >>,
       << "{store}", Get(product.store, Empty) >>,
       << "{sku}", IF product.has_skus THEN Join(<< ",", " " >>, product.skus) ELSE Empty >>,
       << "{color}", extract_color_from_title(product.title) >>,
       << "{brand}", product.vendor >>,
       << "{category}", product.type >>,
       << "{index}", << Str(image_index + 1) >> >>,
       << "{id}", random_id >> >>

\* faulty variant of FilenameVariables: {brand} and {category} are the vendor
\* and the type as they are
FilenameVariablesRawAliases(product, image_index, random_id) ==
    << << "{title}", Lower(Replace(product.title, " ", << "-" >>)) >>,
       << "{vendor}", Lower(Replace(product.vendor, " ", << "-" >>)) >>,
       << "{type}", Lower(Replace(product.type, " ", << "-" >>)) >>,
       << "{tags}", Lower(Join(<< "-" >>, product.tags)) >>,
       << "{store}", Lower(Replace(Get(product.store, Empty), " ", << "-" >>)) >>,
       << "{sku}", IF product.has_skus THEN Join(<< "-" >>, product.skus) ELSE Empty >>,
       << "{color}", extract_color_from_title(product.title) >>,
       << "{brand}", product.vendor >>,
       << "{category}", product.type >>,
       << "{index}", << Str(image_index + 1) >> >>,
       << "{id}", random_id >> >>

\* the variables dict of apply_filename_template_to_image
FilenameVariables(product, image_index, random_id) ==
    << << "{title}", Lower(Replace(product.title, " ", << "-" >>)) >>,
       << "{vendor}", Lower(Replace(product.vendor, " ", << "-" >>)) >>,
       << "{type}", Lower(Replace(product.type, " ", << "-" >>)) >>,
       << "{tags}", Lower(Join(<< "-" >>, product.tags)) >>,
       << "{store}", Lower(Replace(Get(product.store, Empty), " ", << "-" >>)) >>,
       << "{sku}", IF product.has_skus THEN Join(<< "-" >>, product.skus) ELSE Empty >>,
       << "{color}", extract_color_from_title(product.title) >>,
       << "{brand}", Lower(Replace(product.vendor, " ", << "-" >>)) >>,
       << "{category}", Lower(Replace(product.type, " ", << "-" >>)) >>,
       << "{index}", << Str(image_index + 1) >> >>,
       << "{id}", random_id >> >>

\* ------------------------------------------------------- template renderer

\* for var, value in variables.items(): text = text.replace(var, value)
RECURSIVE Substitute(_, _)
Substitute(text, variables) ==
    IF variables = << >> THEN text
    ELSE Substitute(Replace(text, Head(variables)[1], Head(variables)[2]), Tail(variables))

preview_template(template, product, image_index, random_id) ==
    Substitute(template, DescriptiveVariables(product, image_index, random_id))

\* ---------------------------------------------------------- template store

Min(a, b) == IF a < b THEN a ELSE b

Template(id, name, template) == [id |-> id, name |-> name, template |-> template]

sample_alt_text_templates ==
    << Template(<< "template_basic" >>, << "Basic Product Description" >>,
                << "{title}", " by ", "{vendor}", ", ", "{type}", " product" >>),
       Template(<< "template_seo" >>, << "SEO Optimized" >>,
                << "Buy ", "{title}", " from ", "{vendor}", " - Premium ", "{type}", " product" >>),
       Template(<< "template_detailed" >>, << "Detailed with Color" >>,
                << "{color}", " ", "{title}", " - ", "{vendor}", " ", "{type}",
                   ", a quality product from ", "{store}" >>),
       Template(<< "template_minimal" >>, << "Minimal" >>,
                << "{title}", " - ", "{vendor}" >>),
       Template(<< "template_professional" >>, << "Professional" >>,
                << "Professional ", "{type}", ": ", "{title}", " by ", "{vendor}" >>) >>

sample_filename_templates ==
    << Template(<< "filename_template_basic" >>, << "Basic Filename" >>,
                << "{vendor}", "-", "{title}", "-", "{index}" >>),
       Template(<< "filename_template_seo" >>, << "SEO Filename" >>,
                << "{type}", "-", "{title}", "-", "{vendor}", "-product-", "{id}" >>),
       Template(<< "filename_template_color" >>, << "Color Focused" >>,
                << "{color}", "-", "{title}", "-", "{vendor}", "-", "{id}" >>),
       Template(<< "filename_template_store" >>, << "Store Branded" >>,
                << "{store}", "-", "{type}", "-", "{title}", "-", "{id}" >>),
       Template(<< "filename_template_skus" >>, << "SKU Based" >>,
                << "{sku}", "-product-image-", "{index}" >>) >>

\* load_sample_templates(), cut to the first NumSamples of each list
load_sample_templates ==
    [alt |-> SubSeq(sample_alt_text_templates, 1, Min(NumSamples, 5)),
     filename |-> SubSeq(sample_filename_templates, 1, Min(NumSamples, 5))]

\* initialize_templates() on the pair of pools: the samples are loaded when
\* both pools are empty
initialize_templates(alt, filename) ==
    IF Len(alt) = 0 /\ Len(filename) = 0
    THEN load_sample_templates
    ELSE [alt |-> alt, filename |-> filename]

\* f"template_{len(pool) + 1}_{int(time.time())}"
NewTemplateId(pool, clock) == << "template_", Str(Len(pool) + 1), "_", Str(clock) >>

\* f"filename_template_{len(pool) + 1}_{int(time.time())}"
NewFilenameTemplateId(pool, clock) ==
    << "filename_template_", Str(Len(pool) + 1), "_", Str(clock) >>

\* next((t for t in pool if t["id"] == template_id), None): the position of
\* the first match, 0 when there is none
RECURSIVE FindFrom(_, _, _)
FindFrom(pool, template_id, i) ==
    IF i > Len(pool) THEN 0
    ELSE IF pool[i].id = template_id THEN i
    ELSE FindFrom(pool, template_id, i + 1)

\* faulty variant of Find: an id that no template has falls back to the
\* first template of the pool
FindOrFirst(pool, template_id) ==
    IF FindFrom(pool, template_id, 1) # 0 THEN FindFrom(pool, template_id, 1)
    ELSE IF pool = << >> THEN 0 ELSE 1

Find(pool, template_id) == FindFrom(pool, template_id, 1)

\* faulty variant of Pop: the last element goes, whatever i is
PopLast(list, i) == SubSeq(list, 1, Len(list) - 1)

\* list.pop(i), i counted from 1
Pop(list, i) == SubSeq(list, 1, i - 1) \o SubSeq(list, i + 1, Len(list))

\* ------------------------------------------------------------------- state

VARIABLES
    now,                   \* int(time.time())
    active_tab,            \* st.session_state.active_tab
    templates,             \* st.session_state.templates
    filename_templates,    \* st.session_state.filename_templates
    edit_template_id,      \* st.session_state.edit_template_id, NoKey when absent
    edit_template_name,    \* st.session_state.edit_template_name
    edit_template_string,  \* st.session_state.edit_template_string
    shopify_connected,     \* st.session_state.shopify_connected
    shop_url,              \* st.session_state.shop_url, NoKey when absent
    access_token,          \* st.session_state.access_token, NoKey when absent
    products,              \* st.session_state.products
    current_product,       \* st.session_state.current_product
    last                   \* what the most recent handler was given and did

vars ==
    << now, active_tab, templates, filename_templates, edit_template_id,
       edit_template_name, edit_template_string, shopify_connected, shop_url,
       access_token, products, current_product, last >>

store_vars == << templates, filename_templates >>

edit_vars == << edit_template_id, edit_template_name, edit_template_string >>

connection_vars == << shopify_connected, shop_url, access_token >>

catalog_vars == << connection_vars, products, current_product >>

\* st.session_state.current_product: None, or the dict that is also the
\* idx-th element of st.session_state.products (kind "ref"), or a dict that
\* the working set no longer holds (kind "detached")
NoProduct == [kind |-> "none", idx |-> 0, obj |-> << >>]

Ref(i) == [kind |-> "ref", idx |-> i, obj |-> << >>]

Detached(product) == [kind |-> "detached", idx |-> 0, obj |-> product]

\* the record kept in last: the handler, the message it showed ("success",
\* "error" or "none"), its two text inputs, the value it returned (for Save
\* and Delete: the id of the template they were asked to change) and the
\* local and remote effects it had, in order
Outcome(op, msg, a, b, ret, trace) ==
    [op |-> op, msg |-> msg, a |-> a, b |-> b, ret |-> ret, trace |-> trace]

\* no handler ran in the most recent script run
Idle == Outcome("idle", "none", Empty, Empty, Empty, << >>)

Init ==
    /\ now = 0
    /\ active_tab = "dashboard"
    /\ templates = << >>
    /\ filename_templates = << >>
    /\ edit_template_id = NoKey
    /\ edit_template_name = NoKey
    /\ edit_template_string = NoKey
    /\ shopify_connected = FALSE
    /\ shop_url = NoKey
    /\ access_token = NoKey
    /\ products = << >>
    /\ current_product = NoProduct
    /\ last = Idle

\* ----------------------------------------------------------------- actions

\* the clock advances by a second
Tick ==
    /\ now < MaxTime
    /\ now' = now + 1
    /\ last' = Idle
    /\ UNCHANGED << active_tab, store_vars, edit_vars, catalog_vars >>

Tabs == { "dashboard", "connect", "templates", "products" }

\* a click on a navigation tab and the script run that follows it; the
\* templates tab runs improved_template_management, which starts with
\* initialize_templates
GoTab(tab) ==
    /\ active_tab' = tab
    /\ LET pools == IF tab = "templates"
                    THEN initialize_templates(templates, filename_templates)
                    ELSE [alt |-> templates, filename |-> filename_templates]
       IN /\ templates' = pools.alt
          /\ filename_templates' = pools.filename
    /\ last' = Idle
    /\ UNCHANGED << now, edit_vars, catalog_vars >>

\* "Add Template" on the alt text tab
AddTemplate(template_name, template_string) ==
    /\ active_tab = "templates"
    /\ Len(templates) < MaxPool
    /\ IF Truthy(template_name) /\ Truthy(template_string)
       THEN /\ templates' = Append(templates,
                    Template(NewTemplateId(templates, now), template_name, template_string))
            /\ last' = Outcome("add_template", "success", template_name, template_string,
                               Empty, << >>)
       ELSE /\ templates' = templates
            /\ last' = Outcome("add_template", "error", template_name, template_string,
                               Empty, << >>)
    /\ UNCHANGED << now, active_tab, filename_templates, edit_vars, catalog_vars >>

\* "Add Template" on the filename tab
AddFilenameTemplate(filename_template_name, filename_template_string) ==
    /\ active_tab = "templates"
    /\ Len(filename_templates) < MaxPool
    /\ IF Truthy(filename_template_name) /\ Truthy(filename_template_string)
       THEN /\ filename_templates' = Append(filename_templates,
                    Template(NewFilenameTemplateId(filename_templates, now),
                             filename_template_name, filename_template_string))
            /\ last' = Outcome("add_filename_template", "success", filename_template_name,
                               filename_template_string, Empty, << >>)
       ELSE /\ filename_templates' = filename_templates
            /\ last' = Outcome("add_filename_template", "error", filename_template_name,
                               filename_template_string, Empty, << >>)
    /\ UNCHANGED << now, active_tab, templates, edit_vars, catalog_vars >>

\* "Edit" beside the i-th alt text template
EditTemplate(i) ==
    /\ active_tab = "templates"
    /\ i \in 1..Len(templates)
    /\ edit_template_id' = templates[i].id
    /\ edit_template_name' = templates[i].name
    /\ edit_template_string' = templates[i].template
    /\ last' = Outcome("edit", "none", Empty, Empty, Empty, << >>)
    /\ UNCHANGED << now, active_tab, store_vars, catalog_vars >>

\* "Delete" beside the i-th alt text template: templates.pop(i), and the
\* script run that follows (initialize_templates again)
DeleteTemplate(i) ==
    /\ active_tab = "templates"
    /\ i \in 1..Len(templates)
    /\ LET pools == initialize_templates(Pop(templates, i), filename_templates)
       IN /\ templates' = pools.alt
          /\ filename_templates' = pools.filename
    /\ last' = Outcome("delete", "none", Empty, Empty, templates[i].id, << >>)
    /\ UNCHANGED << now, active_tab, edit_vars, catalog_vars >>

\* faulty variant of SavedPool: the changed template moves to the end of the
\* pool
SavedPoolMovedLast(pool, id, edited_name, edited_template) ==
    LET idx == Find(pool, id)
    IN IF idx = 0 THEN pool
       ELSE Append(Pop(pool, idx),
                   [pool[idx] EXCEPT !.name = edited_name, !.template = edited_template])

\* the pool after the Save loop: name and template of the first template
\* whose id is the edit session's are replaced
SavedPool(pool, id, edited_name, edited_template) ==
    LET idx == Find(pool, id)
    IN IF idx = 0 THEN pool
       ELSE [pool EXCEPT ![idx].name = edited_name, ![idx].template = edited_template]

\* "Save" in the edit form, shown while an edit session is open and the
\* pool is not empty
SaveTemplate(edited_name, edited_template) ==
    /\ active_tab = "templates"
    /\ edit_template_id # NoKey
    /\ templates # << >>
    /\ IF Truthy(edited_name) /\ Truthy(edited_template)
       THEN /\ templates' = SavedPool(templates, edit_template_id, edited_name, edited_template)
            /\ edit_template_id' = NoKey
            /\ edit_template_name' = NoKey
            /\ edit_template_string' = NoKey
            /\ last' = Outcome("save", "success", edited_name, edited_template,
                               edit_template_id, << >>)
       ELSE /\ UNCHANGED << templates, edit_vars >>
            /\ last' = Outcome("save", "none", edited_name, edited_template,
                               edit_template_id, << >>)
    /\ UNCHANGED << now, active_tab, filename_templates, catalog_vars >>

\* "Cancel" in the edit form
CancelEdit ==
    /\ active_tab = "templates"
    /\ edit_template_id # NoKey
    /\ templates # << >>
    /\ edit_template_id' = NoKey
    /\ edit_template_name' = NoKey
    /\ edit_template_string' = NoKey
    /\ last' = Outcome("cancel", "none", Empty, Empty, Empty, << >>)
    /\ UNCHANGED << now, active_tab, store_vars, catalog_vars >>

\* ------------------------------------------------------------ the catalog

\* number of images of the first product of the catalog
NumImages == 2

Image(id, alt) ==
    [id |-> id, alt |-> alt, applied_template |-> None,
     filename |-> NoKey, applied_filename_template |-> None]

Product(id, title, vendor, type, tags, images) ==
    [id |-> id, title |-> title, vendor |-> vendor, type |-> type, tags |-> tags,
     store |-> NoKey, has_skus |-> FALSE, skus |-> << >>, images |-> images]

ImageGid(n) == << "gid://shopify/ProductImage/", Str(n) >>

ProductGid(n) == << "gid://shopify/Product/", Str(n) >>

\* what fetch_products() builds from a successful GraphQL answer: image
\* dicts with id, src, alt (altText or "") and applied_template None, and
\* product dicts without the keys "store" and "skus"
Catalog ==
    << Product(ProductGid(1), << "Blue", " ", "Denim", " ", "Jacket" >>, << "Acme" >>,
               << "Jacket" >>, << << "summer" >>, << "casual" >> >>,
               [i \in 1..NumImages |-> Image(ImageGid(i), Empty)]),
       Product(ProductGid(2), << "Red", " ", "Scarf" >>, << "Acme" >>,
               << "Scarf" >>, << >>, << >>) >>

\* the SKU codes that the variants of a product have in the shop, in variant
\* order: two for the first product, none for any other.  The query of
\* fetch_products asks for id, title and price of a variant, and product_data
\* has no key "skus" (has_skus of Product is FALSE)
RemoteVariantSkus(product_id) ==
    IF product_id = ProductGid(1) THEN << << "SKU-1" >>, << "SKU-2" >> >> ELSE << >>

\* gid.split("/")[-1]
NumericId(gid) == << gid[Len(gid)] >>

\* ------------------------------------------------------ the remote catalog

\* what the HTTP request of make_shopify_request can end in: a 2xx answer
\* whose JSON has the key "image", a status >= 400, a RequestException
Responses == { "image", "http_error", "exception" }

\* make_shopify_request(endpoint, "PUT", data): the dict it returns, as the
\* set of its keys; {} when the session is not connected (no request is
\* sent), on a status >= 400 and on a RequestException
make_shopify_request(connected, response) ==
    IF ~connected THEN { }
    ELSE IF response = "image" THEN { "image" }
    ELSE { }

\* update_image_alt_text(product_id, image_id, alt_text): "image" in result
update_image_alt_text(connected, response) ==
    "image" \in make_shopify_request(connected, response)

\* update_image_filename(product_id, image_id, filename): the catalog field
\* update for the filename, one call that answers with a boolean
update_image_filename(connected, response) ==
    connected /\ response = "image"

\* the local write of a field of an image, as an entry of a handler's trace
SetEvent(image_id, field, value) ==
    [ev |-> "set", image |-> image_id, field |-> field, value |-> value, ok |-> TRUE]

\* one remote field update, as an entry of a handler's trace
PushEvent(image_id, field, value, ok) ==
    [ev |-> "push", image |-> NumericId(image_id), field |-> field, value |-> value,
     ok |-> ok]

\* ------------------------------------------------ filename uniqueness guard

\* previously_issued at the start of a run on an entity: the filenames that
\* the images of the entity hold
SeedIssued(product) ==
    { product.images[i].filename :
        i \in { j \in 1..Len(product.images) : product.images[j].filename # NoKey } }

\* name with "-k" put before its extension (its last token with a ".")
RECURSIVE LastDot(_, _)
LastDot(name, i) ==
    IF i = 0 THEN 0 ELSE IF HasDotTok(name[i]) THEN i ELSE LastDot(name, i - 1)

WithSuffix(name, k) ==
    LET d == LastDot(name, Len(name))
    IN IF d = 0 THEN name \o << "-", Str(k) >>
       ELSE SubSeq(name, 1, d - 1) \o << "-", Str(k) >> \o SubSeq(name, d, Len(name))

\* the smallest number from k on for which name-k is not in taken
RECURSIVE FreeSuffix(_, _, _)
FreeSuffix(name, taken, k) ==
    IF WithSuffix(name, k) \notin taken THEN k ELSE FreeSuffix(name, taken, k + 1)

\* generate_unique_filename(filename, product_id, image_id): the name
\* itself when previously_issued does not hold it, else the name with the
\* first free numeric suffix, counted from 2
generate_unique_filename(filename, product_id, image_id, issued) ==
    IF filename \notin issued THEN filename
    ELSE WithSuffix(filename, FreeSuffix(filename, issued, 2))

\* ----------------------------------------------------------- apply handlers

\* the position (from 1) of the first image with the id, 0 when none has it
RECURSIVE ImagePosFrom(_, _, _)
ImagePosFrom(images, image_id, i) ==
    IF i > Len(images) THEN 0
    ELSE IF images[i].id = image_id THEN i
    ELSE ImagePosFrom(images, image_id, i + 1)

ImagePos(images, image_id) == ImagePosFrom(images, image_id, 1)

\* faulty variant of ImageIndex: the index counts from 1
ImageIndexFromOne(images, image_id) == ImagePos(images, image_id)

\* the enumerate loop of the apply functions: the zero-based index of the
\* image, 0 when the product has no image with the id
ImageIndex(images, image_id) ==
    IF ImagePos(images, image_id) = 0 THEN 0 ELSE ImagePos(images, image_id) - 1

\* what an apply function leaves behind: the product, previously_issued of
\* the run, the returned text and the trace of local writes and remote updates
Applied(product, issued, ret, trace) ==
    [product |-> product, issued |-> issued, ret |-> ret, trace |-> trace]

\* faulty variant of UpdateImageAlt: a failed remote update takes the local
\* write back
UpdateImageAltOrRevert(product, pos, alt_text, template_id, connected, response) ==
    LET image_id == product.images[pos].id
        ok == update_image_alt_text(connected, response)
    IN Applied(
         IF ok THEN [product EXCEPT !.images[pos].alt = alt_text,
                                    !.images[pos].applied_template = template_id]
         ELSE product,
         { }, alt_text,
         << SetEvent(image_id, "alt", alt_text), PushEvent(image_id, "alt", alt_text, ok) >>)

\* faulty variant of UpdateImageAlt: a failed remote update is sent again
UpdateImageAltWithRetry(product, pos, alt_text, template_id, connected, response) ==
    LET image_id == product.images[pos].id
        ok == update_image_alt_text(connected, response)
    IN Applied(
         [product EXCEPT !.images[pos].alt = alt_text,
                         !.images[pos].applied_template = template_id],
         { }, alt_text,
         << SetEvent(image_id, "alt", alt_text), PushEvent(image_id, "alt", alt_text, ok) >>
         \o (IF ok THEN << >> ELSE << PushEvent(image_id, "alt", alt_text, ok) >>))

\* the body of the image loop of apply_template_to_image for the image at
\* pos: the two local writes, then update_image_alt_text, whose result is
\* dropped
UpdateImageAlt(product, pos, alt_text, template_id, connected, response) ==
    LET image_id == product.images[pos].id
    IN Applied(
         [product EXCEPT !.images[pos].alt = alt_text,
                         !.images[pos].applied_template = template_id],
         { }, alt_text,
         << SetEvent(image_id, "alt", alt_text),
            PushEvent(image_id, "alt", alt_text,
                      update_image_alt_text(connected, response)) >>)

\* apply_template_to_image(product, image_id, template_id), with the random
\* token and the answer of the remote catalog as further inputs
apply_template_to_image(product, image_id, template_id, random_id, response, pool, connected) ==
    LET t == Find(pool, template_id)
        pos == ImagePos(product.images, image_id)
        alt_text == Substitute(pool[t].template,
                        DescriptiveVariables(product, ImageIndex(product.images, image_id),
                                             random_id))
    IN IF t = 0 THEN Applied(product, { }, Empty, << >>)
       ELSE IF pos = 0 THEN Applied(product, { }, alt_text, << >>)
       ELSE UpdateImageAlt(product, pos, alt_text, template_id, connected, response)

\* faulty variant of apply_filename_template_to_image: the image gets the
\* rendered name, not the name generate_unique_filename returned
apply_filename_template_unguarded(product, image_id, template_id, random_id, response, pool, connected, issued) ==
    LET t == Find(pool, template_id)
        pos == ImagePos(product.images, image_id)
        rendered == Substitute(pool[t].template,
                        FilenameVariables(product, ImageIndex(product.images, image_id),
                                          random_id))
        filename_template == IF HasDot(rendered) THEN rendered ELSE rendered \o << ".jpg" >>
        filename == generate_unique_filename(filename_template, product.id, image_id, issued)
        registered == issued \cup { filename }
    IN IF t = 0 THEN Applied(product, issued, Empty, << >>)
       ELSE IF pos = 0 THEN Applied(product, registered, filename, << >>)
       ELSE Applied(
              [product EXCEPT !.images[pos].filename = filename_template,
                              !.images[pos].applied_filename_template = template_id],
              registered, filename,
              << SetEvent(image_id, "filename", filename_template),
                 PushEvent(image_id, "filename", filename_template,
                           update_image_filename(connected, response)) >>)

\* faulty variant of apply_filename_template_to_image: the image gets the
\* reference to the template and no filename
apply_filename_template_reference_only(product, image_id, template_id, random_id, response, pool, connected, issued) ==
    LET t == Find(pool, template_id)
        pos == ImagePos(product.images, image_id)
    IN IF t = 0 \/ pos = 0 THEN Applied(product, issued, Empty, << >>)
       ELSE Applied([product EXCEPT !.images[pos].applied_filename_template = template_id],
                    issued, Empty,
                    << SetEvent(image_id, "applied_filename_template", template_id) >>)

\* apply_filename_template_to_image(product, image_id, template_id)
apply_filename_template_to_image(product, image_id, template_id, random_id, response, pool, connected, issued) ==
    LET t == Find(pool, template_id)
        pos == ImagePos(product.images, image_id)
        rendered == Substitute(pool[t].template,
                        FilenameVariables(product, ImageIndex(product.images, image_id),
                                          random_id))
        filename_template == IF HasDot(rendered) THEN rendered ELSE rendered \o << ".jpg" >>
        filename == generate_unique_filename(filename_template, product.id, image_id, issued)
        registered == issued \cup { filename }
    IN IF t = 0 THEN Applied(product, issued, Empty, << >>)
       ELSE IF pos = 0 THEN Applied(product, registered, filename, << >>)
       ELSE Applied(
              [product EXCEPT !.images[pos].filename = filename,
                              !.images[pos].applied_filename_template = template_id],
              registered, filename,
              << SetEvent(image_id, "filename", filename),
                 PushEvent(image_id, "filename", filename,
                           update_image_filename(connected, response)) >>)

\* faulty variant of BulkAlt: the loop ends at the first image whose remote
\* update fails
RECURSIVE BulkAltUntilFailure(_, _, _, _, _, _, _)
BulkAltUntilFailure(state, i, template_id, responses, pool, connected, random_ids) ==
    IF i > Len(state.product.images) THEN state
    ELSE LET one == apply_template_to_image(state.product, state.product.images[i].id,
                        template_id, random_ids[i], responses[i], pool, connected)
             next == Applied(one.product, { }, one.ret, state.trace \o one.trace)
         IN IF one.trace # << >> /\ ~one.trace[Len(one.trace)].ok THEN next
            ELSE BulkAltUntilFailure(next, i + 1, template_id, responses, pool, connected,
                                     random_ids)

\* for image in product["images"]: apply_template_to_image(product,
\* image["id"], template_id), from the i-th image on; responses[i] is the
\* remote catalog's answer to the update of the i-th image and random_ids[i]
\* the random token of the i-th call
RECURSIVE BulkAlt(_, _, _, _, _, _, _)
BulkAlt(state, i, template_id, responses, pool, connected, random_ids) ==
    IF i > Len(state.product.images) THEN state
    ELSE LET one == apply_template_to_image(state.product, state.product.images[i].id,
                        template_id, random_ids[i], responses[i], pool, connected)
         IN BulkAlt(Applied(one.product, { }, one.ret, state.trace \o one.trace),
                    i + 1, template_id, responses, pool, connected, random_ids)

\* for image in product["images"]: apply_filename_template_to_image(...)
RECURSIVE BulkFilename(_, _, _, _, _, _, _)
BulkFilename(state, i, template_id, responses, pool, connected, random_ids) ==
    IF i > Len(state.product.images) THEN state
    ELSE LET one == apply_filename_template_to_image(state.product,
                        state.product.images[i].id, template_id, random_ids[i],
                        responses[i], pool, connected, state.issued)
         IN BulkFilename(Applied(one.product, one.issued, one.ret, state.trace \o one.trace),
                         i + 1, template_id, responses, pool, connected, random_ids)

\* the loop over selected_products of "Apply to All Selected", from the
\* p-th product on; the i-th image of every product gets responses[i] and
\* random_ids[i]
RECURSIVE BulkAltSelected(_, _, _, _, _, _, _, _)
BulkAltSelected(selected, p, trace, template_id, responses, pool, connected, random_ids) ==
    IF p > Len(selected) THEN [products |-> selected, trace |-> trace]
    ELSE LET done == BulkAlt(Applied(selected[p], { }, Empty, << >>), 1, template_id,
                             responses, pool, connected, random_ids)
         IN BulkAltSelected([selected EXCEPT ![p] = done.product], p + 1,
                            trace \o done.trace, template_id, responses, pool, connected,
                            random_ids)

\* the dict current_product refers to
Current == IF current_product.kind = "ref" THEN products[current_product.idx]
           ELSE current_product.obj

\* the in-place mutation of the dict current_product refers to
MutateCurrent(product) ==
    IF current_product.kind = "ref"
    THEN /\ products' = [products EXCEPT ![current_product.idx] = product]
         /\ current_product' = current_product
    ELSE /\ products' = products
         /\ current_product' = Detached(product)

\* "View" / "View Details" beside the i-th product
ViewProduct(i) ==
    /\ active_tab = "products"
    /\ i \in 1..Len(products)
    /\ current_product' = Ref(i)
    /\ last' = Outcome("view", "none", Empty, Empty, Empty, << >>)
    /\ UNCHANGED << now, active_tab, store_vars, edit_vars, connection_vars, products >>

\* "Back to Products"
BackToProducts ==
    /\ active_tab = "products"
    /\ current_product.kind # "none"
    /\ current_product' = NoProduct
    /\ last' = Outcome("back", "none", Empty, Empty, Empty, << >>)
    /\ UNCHANGED << now, active_tab, store_vars, edit_vars, connection_vars, products >>

\* a call apply_template_to_image(current_product, image_id, template_id),
\* as "Apply" beside an image of the detail view makes it
ApplyTemplate(image_id, template_id, random_id, response) ==
    /\ active_tab = "products"
    /\ current_product.kind # "none"
    /\ \E r \in { apply_template_to_image(Current, image_id, template_id, random_id,
                    response, templates, shopify_connected) } :
          /\ MutateCurrent(r.product)
          /\ last' = Outcome("apply_alt", "success", image_id, template_id, r.ret, r.trace)
    /\ UNCHANGED << now, active_tab, store_vars, edit_vars, connection_vars >>

\* a call apply_filename_template_to_image(current_product, image_id,
\* template_id), as "Apply" on the filename tab of an image makes it
ApplyFilenameTemplate(image_id, template_id, random_id, response) ==
    /\ active_tab = "products"
    /\ current_product.kind # "none"
    /\ \E r \in { apply_filename_template_to_image(Current, image_id, template_id,
                    random_id, response, filename_templates, shopify_connected,
                    SeedIssued(Current)) } :
          /\ MutateCurrent(r.product)
          /\ last' = Outcome("apply_filename", "success", image_id, template_id, r.ret,
                             r.trace)
    /\ UNCHANGED << now, active_tab, store_vars, edit_vars, connection_vars >>

\* "Apply to All Images" of the detail view, alt text tab
BulkApplyAlt(template_id, responses, random_ids) ==
    /\ active_tab = "products"
    /\ current_product.kind # "none"
    /\ \E r \in { BulkAlt(Applied(Current, { }, Empty, << >>), 1,
                    template_id, responses, templates, shopify_connected, random_ids) } :
          /\ MutateCurrent(r.product)
          /\ last' = Outcome("bulk_alt", "success", Current.id, template_id, Empty, r.trace)
    /\ UNCHANGED << now, active_tab, store_vars, edit_vars, connection_vars >>

\* "Apply to All Images" of the detail view, filename tab
BulkApplyFilename(template_id, responses, random_ids) ==
    /\ active_tab = "products"
    /\ current_product.kind # "none"
    /\ \E r \in { BulkFilename(Applied(Current, SeedIssued(Current), Empty, << >>), 1,
                    template_id, responses, filename_templates, shopify_connected,
                    random_ids) } :
          /\ MutateCurrent(r.product)
          /\ last' = Outcome("bulk_filename", "success", Current.id, template_id, Empty,
                             r.trace)
    /\ UNCHANGED << now, active_tab, store_vars, edit_vars, connection_vars >>

\* "Apply to All Selected" of the bulk operations, alt text tab, with the
\* selection "All Products"
BulkApplyAltSelected(template_id, responses, random_ids) ==
    /\ active_tab = "products"
    /\ products # << >>
    /\ \E r \in { BulkAltSelected(products, 1, << >>, template_id,
                    responses, templates, shopify_connected, random_ids) } :
          /\ products' = r.products
          /\ last' = Outcome("bulk_alt_selected", "success", Empty, template_id, Empty,
                             r.trace)
    /\ UNCHANGED << now, active_tab, store_vars, edit_vars, connection_vars,
                    current_product >>

\* the formatting of the shop URL in the connection form: strip, drop
\* "https://" at the start, add ".myshopify.com" where it is missing
format_shop_url(url) ==
    LET bare == IF url # Empty /\ Head(url) = "https://"
                THEN Replace(url, "https://", Empty) ELSE url
    IN IF \E i \in 1..Len(bare) : bare[i] = ".myshopify.com" THEN bare
       ELSE bare \o << ".myshopify.com" >>

\* the connection form (tab "connect"): with both fields filled in, the
\* formatted URL and the token are stored, then the test request is sent; a
\* 2xx answer sets shopify_connected, any other answer and an exception
\* leave it as it was.  With a field left empty nothing is stored
Connect(url, token, status_2xx) ==
    /\ active_tab = "connect"
    /\ IF Truthy(url) /\ Truthy(token)
       THEN /\ shop_url' = format_shop_url(url)
            /\ access_token' = token
            /\ shopify_connected' = (shopify_connected \/ status_2xx)
            /\ last' = Outcome("connect", IF status_2xx THEN "success" ELSE "error",
                               format_shop_url(url), token, Empty, << >>)
       ELSE /\ UNCHANGED connection_vars
            /\ last' = Outcome("connect", "error", url, token, Empty, << >>)
    /\ UNCHANGED << now, active_tab, store_vars, edit_vars, products, current_product >>

\* the keys of st.session_state that the model follows
SessionKeys ==
    { "active_tab", "templates", "filename_templates", "edit_template_id",
      "edit_template_name", "edit_template_string", "shopify_connected", "shop_url",
      "access_token", "products", "current_product" }

\* faulty variant of reset_keys: the credentials are kept
reset_keys_but_credentials(keys) == keys \ { "shop_url", "access_token" }

\* for key in list(st.session_state.keys()): del st.session_state[key]
reset_keys(keys) == keys

\* the value of a key after "Reset App" and the script run that follows it:
\* the initialisation block gives a deleted key its default, and a deleted
\* key that the block does not name stays absent
AfterReset(key, value, default) == IF key \in reset_keys(SessionKeys) THEN default ELSE value

\* "Reset App" on the debug tab, shown while the session is connected, and
\* the script run that st.rerun() starts
ResetApp ==
    /\ active_tab = "debug"
    /\ shopify_connected
    /\ active_tab' = AfterReset("active_tab", active_tab, "dashboard")
    /\ templates' = AfterReset("templates", templates, << >>)
    /\ filename_templates' = AfterReset("filename_templates", filename_templates, << >>)
    /\ edit_template_id' = AfterReset("edit_template_id", edit_template_id, NoKey)
    /\ edit_template_name' = AfterReset("edit_template_name", edit_template_name, NoKey)
    /\ edit_template_string' = AfterReset("edit_template_string", edit_template_string, NoKey)
    /\ shopify_connected' = AfterReset("shopify_connected", shopify_connected, FALSE)
    /\ shop_url' = AfterReset("shop_url", shop_url, NoKey)
    /\ access_token' = AfterReset("access_token", access_token, NoKey)
    /\ products' = AfterReset("products", products, << >>)
    /\ current_product' = AfterReset("current_product", current_product, NoProduct)
    /\ last' = Outcome("reset", "success", Empty, Empty, Empty, << >>)
    /\ UNCHANGED now

\* fetch_products(): the product dicts built from the GraphQL answer; [] when
\* make_shopify_request returns {} (not connected, status >= 400, exception)
fetch_products(connected, answered) == IF connected /\ answered THEN Catalog ELSE << >>

\* "Fetch All Products": a non-empty result replaces the working set; the
\* dict current_product refers to stays what it was
FetchAllProducts(answered) ==
    /\ active_tab = "products"
    /\ LET fetched == fetch_products(shopify_connected, answered)
       IN IF fetched # << >>
          THEN /\ products' = fetched
               /\ current_product' = IF current_product.kind = "ref"
                                     THEN Detached(products[current_product.idx])
                                     ELSE current_product
               /\ last' = Outcome("fetch", "success", Empty, Empty, Empty, << >>)
          ELSE /\ UNCHANGED << products, current_product >>
               /\ last' = Outcome("fetch", "error", Empty, Empty, Empty, << >>)
    /\ UNCHANGED << now, active_tab, store_vars, edit_vars, connection_vars >>

\* the preview under the template select box of the detail view:
\* preview_template(template["template"], current_product), shown when the
\* pool holds the selected template; image_index is left at its default 0
PreviewTemplate(template_id, random_id) ==
    /\ active_tab = "products"
    /\ current_product.kind # "none"
    /\ Find(templates, template_id) # 0
    /\ last' = Outcome("preview", "none", Empty, template_id,
                       preview_template(templates[Find(templates, template_id)].template,
                                        Current, 0, random_id),
                       << >>)
    /\ UNCHANGED << now, active_tab, store_vars, edit_vars, catalog_vars >>

\* for i, image in enumerate(product["images"][:3])
QuickPreviewLimit == 3

\* the preview of the "Apply Alt Text" tab of Quick Edit for the i-th image
\* (from 1) of the k-th product: preview_template(template["template"],
\* product, i - 1)
QuickPreviewTemplate(k, template_id, i, random_id) ==
    /\ active_tab = "products"
    /\ k \in 1..Len(products)
    /\ i \in 1..Min(QuickPreviewLimit, Len(products[k].images))
    /\ Find(templates, template_id) # 0
    /\ last' = Outcome("quick_preview", "none", products[k].images[i].id, template_id,
                       preview_template(templates[Find(templates, template_id)].template,
                                        products[k], i - 1, random_id),
                       << >>)
    /\ UNCHANGED << now, active_tab, store_vars, edit_vars, catalog_vars >>

\* the preview of the "Apply Filenames" tab of Quick Edit: the same call on
\* the template of the filename pool, with ".jpg" added to a preview that
\* holds no "."
QuickPreviewFilename(k, template_id, i, random_id) ==
    /\ active_tab = "products"
    /\ k \in 1..Len(products)
    /\ i \in 1..Min(QuickPreviewLimit, Len(products[k].images))
    /\ Find(filename_templates, template_id) # 0
    /\ LET preview == preview_template(
                         filename_templates[Find(filename_templates, template_id)].template,
                         products[k], i - 1, random_id)
       IN last' = Outcome("quick_preview_filename", "none", products[k].images[i].id,
                          template_id,
                          IF HasDot(preview) THEN preview ELSE preview \o << ".jpg" >>,
                          << >>)
    /\ UNCHANGED << now, active_tab, store_vars, edit_vars, catalog_vars >>

\* "Clear" beside the alt text of an image of the detail view: the loop over
\* current_product["images"] empties alt and applied_template of the first
\* image with the id and sends the empty alt text, once
ClearAltText(image_id, response) ==
    /\ active_tab = "products"
    /\ current_product.kind # "none"
    /\ ImagePos(Current.images, image_id) # 0
    /\ LET pos == ImagePos(Current.images, image_id)
       IN /\ MutateCurrent([Current EXCEPT !.images[pos].alt = Empty,
                                           !.images[pos].applied_template = None])
          /\ last' = Outcome("clear_alt", "success", image_id, Empty, Empty,
                        << SetEvent(image_id, "alt", Empty),
                           PushEvent(image_id, "alt", Empty,
                                     update_image_alt_text(shopify_connected, response)) >>)
    /\ UNCHANGED << now, active_tab, store_vars, edit_vars, connection_vars >>

\* "Clear" on the filename tab of an image: applied_filename_template of the
\* first image with the id becomes None; the filename stays and nothing is
\* sent
ClearFilenameTemplate(image_id) ==
    /\ active_tab = "products"
    /\ current_product.kind # "none"
    /\ ImagePos(Current.images, image_id) # 0
    /\ LET pos == ImagePos(Current.images, image_id)
       IN /\ MutateCurrent([Current EXCEPT !.images[pos].applied_filename_template = None])
          /\ last' = Outcome("clear_filename", "success", image_id, Empty, Empty,
                        << SetEvent(image_id, "applied_filename_template", None) >>)
    /\ UNCHANGED << now, active_tab, store_vars, edit_vars, connection_vars >>

\* ---------------------------------------------------------------- coverage

\* a coverage percentage is the exact quotient num / den, den > 0

\* faulty variant of Percentage: a set without images counts as fully covered
PercentageFullWhenEmpty(count, total) ==
    IF total > 0 THEN [num |-> count * 100, den |-> total] ELSE [num |-> 100, den |-> 1]

\* (count / total * 100) if total > 0 else 0
Percentage(count, total) ==
    IF total > 0 THEN [num |-> count * 100, den |-> total] ELSE [num |-> 0, den |-> 1]

\* sum(1 for img in images if img.get("alt"))
WithAlt(images) == Cardinality({ i \in 1..Len(images) : Truthy(images[i].alt) })

\* faulty variant of WithFilename: an image counts when it holds a filename
WithFilenameString(images) ==
    Cardinality({ i \in 1..Len(images) : images[i].filename # NoKey })

\* sum(1 for img in images if img.get("applied_filename_template"))
WithFilename(images) ==
    Cardinality({ i \in 1..Len(images) : Truthy(images[i].applied_filename_template) })

\* the three counters of calculate_coverage_metrics after the products from
\* the p-th on
RECURSIVE CountFrom(_, _, _)
CountFrom(list, p, counted) ==
    IF p > Len(list) THEN counted
    ELSE CountFrom(list, p + 1,
           [total_images |-> counted.total_images + Len(list[p].images),
            images_with_alt |-> counted.images_with_alt + WithAlt(list[p].images),
            images_with_filename |->
                counted.images_with_filename + WithFilename(list[p].images)])

\* calculate_coverage_metrics() on the working set: the four values it
\* returns and its local counter images_with_filename
calculate_coverage_metrics(list) ==
    LET counted == CountFrom(list, 1, [total_images |-> 0, images_with_alt |-> 0,
                                       images_with_filename |-> 0])
    IN [images_with_alt |-> counted.images_with_alt,
        total_images |-> counted.total_images,
        images_with_filename |-> counted.images_with_filename,
        alt_coverage |-> Percentage(counted.images_with_alt, counted.total_images),
        filename_coverage |->
            Percentage(counted.images_with_filename, counted.total_images)]

\* faulty variant of product_coverage: the images that have neither alt text
\* nor a filename template are left out of total_images
product_coverage_of_touched(product) ==
    LET touched == Cardinality({ i \in 1..Len(product.images) :
                       \/ Truthy(product.images[i].alt)
                       \/ Truthy(product.images[i].applied_filename_template) })
    IN [images_with_alt |-> WithAlt(product.images),
        total_images |-> touched,
        images_with_filename |-> WithFilename(product.images),
        alt_coverage |-> Percentage(WithAlt(product.images), touched),
        filename_coverage |-> Percentage(WithFilename(product.images), touched)]

\* the coverage of one product, as the products list and the product cards
\* compute it
product_coverage(product) ==
    [images_with_alt |-> WithAlt(product.images),
     total_images |-> Len(product.images),
     images_with_filename |-> WithFilename(product.images),
     alt_coverage |-> Percentage(WithAlt(product.images), Len(product.images)),
     filename_coverage |-> Percentage(WithFilename(product.images), Len(product.images))]

\* ------------------------------------------------------------------ inputs

\* the shop URL and the access token of the shop
ShopUrl == << "acme", ".myshopify.com" >>

ShopToken == << "shpat_1" >>

\* what the operator types into the name and template fields
NameInputs == { Empty, << "Flat" >> }

AltStringInputs == { Empty, << "{title}", " - ", "{vendor}", " product" >> }

FilenameStringInputs == { Empty, << "{vendor}", "-product" >> }

\* the alt text template the operator adds in second 0
PlainTemplate ==
    Template(NewTemplateId(load_sample_templates.alt, 0), << "Flat" >>,
             << "{title}", " - ", "{vendor}", " product" >>)

\* the filename template that renders the same for every image of a product
FlatTemplate ==
    Template(NewFilenameTemplateId(load_sample_templates.filename, 0), << "Flat" >>,
             << "{vendor}", "-product" >>)

\* template ids handed to apply_template_to_image: the first sample, which
\* is in the pool until it is deleted, and an id no template ever had
AltTemplateIdInputs == { << "template_basic" >>, << "template_gone" >> }

\* template ids handed to apply_filename_template_to_image: the flat
\* template and an id no template ever had
FilenameTemplateIdInputs == { FlatTemplate.id, << "filename_template_gone" >> }

\* image ids handed to the apply functions: those of the product's images
\* and one that no image of the product has
ImageIdInputs(product) ==
    { product.images[i].id : i \in 1..Len(product.images) } \cup { ImageGid(0) }

\* the answers of the remote catalog and the random tokens of a bulk run,
\* one per image position
BulkResponses == [1..NumImages -> Responses]

BulkRandomIds ==
    { [i \in 1..NumImages |-> IF i % 2 = 1 THEN << "x7k2" >> ELSE << "q0m9" >>] }

\* ---------------------------------------------------------- specifications

\* the session from its start: navigation, the template store, the
\* connection form and the catalog fetch
Next ==
    \/ Tick
    \/ \E tab \in Tabs : GoTab(tab)
    \/ \E n \in NameInputs, s \in AltStringInputs : AddTemplate(n, s)
    \/ \E n \in NameInputs, s \in FilenameStringInputs : AddFilenameTemplate(n, s)
    \/ \E i \in 1..MaxPool : EditTemplate(i)
    \/ \E i \in 1..MaxPool : DeleteTemplate(i)
    \/ \E n \in NameInputs, s \in AltStringInputs : SaveTemplate(n, s)
    \/ CancelEdit
    \/ \E ok \in BOOLEAN : Connect(ShopUrl, ShopToken, ok)
    \/ \E ok \in BOOLEAN : FetchAllProducts(ok)

Spec == Init /\ [][Next]_vars

\* a state of Spec: connected, the samples loaded, one alt text template and
\* the flat filename template added in second 0, the alt text samples after
\* the first deleted, the catalog fetched, the products tab open
ApplyInit ==
    /\ now = 0
    /\ active_tab = "products"
    /\ templates = << load_sample_templates.alt[1], PlainTemplate >>
    /\ filename_templates = Append(load_sample_templates.filename, FlatTemplate)
    /\ edit_template_id = NoKey
    /\ edit_template_name = NoKey
    /\ edit_template_string = NoKey
    /\ shopify_connected = TRUE
    /\ shop_url = ShopUrl
    /\ access_token = ShopToken
    /\ products = Catalog
    /\ current_product = NoProduct
    /\ last = Idle

\* the "Apply" buttons beside the images of the product being viewed
ApplyNext ==
    \/ \E i \in 1..Len(Catalog) : ViewProduct(i)
    \/ /\ current_product.kind # "none"
       /\ \E t \in AltTemplateIdInputs, r \in RandomIds, a \in Responses :
            \E im \in ImageIdInputs(Current) : ApplyTemplate(im, t, r, a)
    \/ /\ current_product.kind # "none"
       /\ \E t \in FilenameTemplateIdInputs, r \in RandomIds, a \in Responses :
            \E i \in 1..Len(Current.images) :
               ApplyFilenameTemplate(Current.images[i].id, t, r, a)

ApplySpec == ApplyInit /\ [][ApplyNext]_vars

\* alt text work on the fetched products, single and bulk, and the deletion
\* of alt text templates in between
AltTextNext ==
    \/ \E tab \in { "templates", "products" } : GoTab(tab)
    \/ \E i \in 1..MaxPool : DeleteTemplate(i)
    \/ \E i \in 1..Len(Catalog) : ViewProduct(i)
    \/ BackToProducts
    \/ /\ current_product.kind # "none"
       /\ \E t \in AltTemplateIdInputs, r \in RandomIds, a \in Responses :
            \E im \in ImageIdInputs(Current) : ApplyTemplate(im, t, r, a)
    \/ \E t \in AltTemplateIdInputs, a \in BulkResponses, r \in BulkRandomIds :
         BulkApplyAlt(t, a, r)
    \/ \E t \in AltTemplateIdInputs, a \in BulkResponses, r \in BulkRandomIds :
         BulkApplyAltSelected(t, a, r)

AltTextSpec == ApplyInit /\ [][AltTextNext]_vars

\* filename work on the product being viewed, single and bulk
FilenameNext ==
    \/ \E i \in 1..Len(Catalog) : ViewProduct(i)
    \/ BackToProducts
    \/ /\ current_product.kind # "none"
       /\ \E t \in FilenameTemplateIdInputs, r \in RandomIds, a \in Responses :
            \E i \in 1..Len(Current.images) :
               ApplyFilenameTemplate(Current.images[i].id, t, r, a)
    \/ \E t \in FilenameTemplateIdInputs, a \in BulkResponses, r \in BulkRandomIds :
         BulkApplyFilename(t, a, r)

FilenameSpec == ApplyInit /\ [][FilenameNext]_vars

\* a state of Spec: as ApplyInit, before the catalog is fetched
CoverageInit ==
    /\ now = 0
    /\ active_tab = "products"
    /\ templates = << load_sample_templates.alt[1], PlainTemplate >>
    /\ filename_templates = Append(load_sample_templates.filename, FlatTemplate)
    /\ edit_template_id = NoKey
    /\ edit_template_name = NoKey
    /\ edit_template_string = NoKey
    /\ shopify_connected = TRUE
    /\ shop_url = ShopUrl
    /\ access_token = ShopToken
    /\ products = << >>
    /\ current_product = NoProduct
    /\ last = Idle

\* the operations that change what the coverage metrics count: the fetch,
\* the "Apply" and the "Clear" buttons of both kinds
CoverageNext ==
    \/ \E ok \in BOOLEAN : FetchAllProducts(ok)
    \/ \E i \in 1..Len(Catalog) : ViewProduct(i)
    \/ /\ current_product.kind # "none"
       /\ \E a \in { "image", "http_error" } : \E i \in 1..Len(Current.images) :
            ApplyTemplate(Current.images[i].id, << "template_basic" >>, << "x7k2" >>, a)
    \/ /\ current_product.kind # "none"
       /\ \E a \in { "image", "http_error" } : \E i \in 1..Len(Current.images) :
            ClearAltText(Current.images[i].id, a)
    \/ /\ current_product.kind # "none"
       /\ \E a \in { "image", "http_error" } : \E i \in 1..Len(Current.images) :
            ApplyFilenameTemplate(Current.images[i].id, FlatTemplate.id, << "x7k2" >>, a)
    \/ /\ current_product.kind # "none"
       /\ \E i \in 1..Len(Current.images) : ClearFilenameTemplate(Current.images[i].id)

CoverageSpec == CoverageInit /\ [][CoverageNext]_vars

\* a product as the catalog can hold it, with NumImages images
RenderProduct(title, vendor, type, tags) ==
    Product(ProductGid(1), title, vendor, type, tags,
            [i \in 1..NumImages |-> Image(ImageGid(i), Empty)])

\* a scarf with a colour in its title, a vendor of two words and a tag of
\* two words
RedScarf ==
    RenderProduct(<< "Red", " ", "Cotton", " ", "Scarf" >>, << "Acme", " ", "Corp" >>,
                  << "Scarf" >>, << << "Summer", " ", "Sale" >>, << "casual" >> >>)

\* a scarf without a colour in its title
CottonScarf == RenderProduct(<< "Cotton", " ", "Scarf" >>, << "Acme" >>, << "Scarf" >>, << >>)

\* a product whose title starts with the text "{vendor}"
VendorSpecial ==
    RenderProduct(<< "{vendor}", " ", "Special" >>, << "Acme" >>, << "Jacket" >>, << >>)

\* a title with two colour words, the first in capitals and after a tab
TwoColours ==
    RenderProduct(<< "Cotton", "\t", "RED", " ", "blue", " ", "Scarf" >>, << "Acme" >>,
                  << "Scarf" >>, << << "summer" >> >>)

\* template strings the operator types into "Add Template" on the alt text
\* tab and on the filename tab
RepeatedStrings ==
    [alt |-> << "{title}", " / ", "{title}", " ", "{foo}", " by ", "{vendor}" >>,
     filename |-> << "{title}", ".png" >>]

BrandStrings ==
    [alt |-> << "{brand}", " ", "{category}" >>,
     filename |-> << "{brand}", "-", "{category}" >>]

VendorStrings ==
    [alt |-> << "{vendor}", " ", "{type}" >>,
     filename |-> << "{vendor}", "-", "{type}" >>]

SkuStrings ==
    [alt |-> << "{title}", " (", "{sku}", ")" >>,
     filename |-> << "{sku}", "-product-image-", "{index}" >>]

IndexStrings ==
    [alt |-> << "Image ", "{index}" >>,
     filename |-> << "{vendor}", "-", "{title}", "-", "{index}" >>]

ColorStrings ==
    [alt |-> << "{color}", " ", "{title}" >>,
     filename |-> << "IMG", "-", "{tags}", "-", "{sku}", "{store}", "{color}" >>]

\* the sessions of the render specification: the templates added and the
\* product fetched
RenderInputs ==
    { [strings |-> IndexStrings, product |-> Catalog[1]],
      [strings |-> SkuStrings, product |-> Catalog[1]],
      [strings |-> RepeatedStrings, product |-> Catalog[1]],
      [strings |-> RepeatedStrings, product |-> VendorSpecial],
      [strings |-> BrandStrings, product |-> RedScarf],
      [strings |-> VendorStrings, product |-> RedScarf],
      [strings |-> ColorStrings, product |-> RedScarf],
      [strings |-> ColorStrings, product |-> CottonScarf],
      [strings |-> ColorStrings, product |-> TwoColours] }

\* the ids that "Add Template" gives the templates added in second 0
RenderAltId == NewTemplateId(load_sample_templates.alt, 0)

RenderFilenameId == NewFilenameTemplateId(load_sample_templates.filename, 0)

\* the remote catalog accepts every update of a bulk run
AllAccepted == [i \in 1..NumImages |-> "image"]

\* states of the session after the samples were loaded, a template was added
\* to each pool, the shop was connected and one product was fetched
RenderInit ==
    /\ now = 0
    /\ active_tab = "products"
    /\ \E c \in RenderInputs :
          /\ templates = Append(load_sample_templates.alt,
                                Template(RenderAltId, << "Flat" >>, c.strings.alt))
          /\ filename_templates =
                Append(load_sample_templates.filename,
                       Template(RenderFilenameId, << "Flat" >>, c.strings.filename))
          /\ products = << c.product >>
    /\ edit_template_id = NoKey
    /\ edit_template_name = NoKey
    /\ edit_template_string = NoKey
    /\ shopify_connected = TRUE
    /\ shop_url = ShopUrl
    /\ access_token = ShopToken
    /\ current_product = NoProduct
    /\ last = Idle

\* the renderings of the detail view: the preview, "Apply" beside an image
\* and "Apply to All Images", for the alt text and for the filename
RenderNext ==
    \/ ViewProduct(1)
    \/ PreviewTemplate(RenderAltId, << "x7k2" >>)
    \/ /\ current_product.kind # "none"
       /\ \E i \in 1..Len(Current.images) :
            ApplyTemplate(Current.images[i].id, RenderAltId, << "x7k2" >>, "image")
    \/ /\ current_product.kind # "none"
       /\ \E i \in 1..Len(Current.images) :
            ApplyFilenameTemplate(Current.images[i].id, RenderFilenameId, << "q0m9" >>,
                                  "image")
    \/ \E r \in BulkRandomIds : BulkApplyAlt(RenderAltId, AllAccepted, r)
    \/ \E r \in BulkRandomIds : BulkApplyFilename(RenderFilenameId, AllAccepted, r)

RenderSpec == RenderInit /\ [][RenderNext]_vars

\* the previews of Quick Edit beside the applies of the detail view, for the
\* alt text and for the filename
PreviewNext ==
    \/ ViewProduct(1)
    \/ \E i \in 1..NumImages : QuickPreviewTemplate(1, RenderAltId, i, << "x7k2" >>)
    \/ \E i \in 1..NumImages : QuickPreviewFilename(1, RenderFilenameId, i, << "q0m9" >>)
    \/ /\ current_product.kind # "none"
       /\ \E i \in 1..Len(Current.images) :
            ApplyTemplate(Current.images[i].id, RenderAltId, << "x7k2" >>, "image")
    \/ /\ current_product.kind # "none"
       /\ \E i \in 1..Len(Current.images) :
            ApplyFilenameTemplate(Current.images[i].id, RenderFilenameId, << "q0m9" >>,
                                  "image")

PreviewSpec == RenderInit /\ [][PreviewNext]_vars

\* what the operator types into the connection form: the shop's URL or the
\* URL of another shop with its scheme, or nothing; the shop's token or
\* another one
UrlInputs == { ShopUrl, << "https://", "other" >>, Empty }

TokenInputs == { ShopToken, << "shpat_2" >> }

\* the session from its start: navigation, the connection form, the fetch,
\* the detail view, the edit form and "Reset App"
SessionNext ==
    \/ \E tab \in { "connect", "templates", "products", "debug" } : GoTab(tab)
    \/ \E url \in UrlInputs, token \in TokenInputs, ok \in BOOLEAN : Connect(url, token, ok)
    \/ FetchAllProducts(TRUE)
    \/ \E i \in 1..Len(Catalog) : ViewProduct(i)
    \/ \E i \in 1..MaxPool : EditTemplate(i)
    \/ ResetApp

SessionSpec == Init /\ [][SessionNext]_vars

\* -------------------------------------------------------------- properties

\* the pool holds a template with the id
Live(pool, id) == \E i \in 1..Len(pool) : pool[i].id = id

\* no two templates of the pool have the same id
UniqueIds(pool) == \A i, j \in 1..Len(pool) : i # j => pool[i].id # pool[j].id

\* the handlers that call an apply function once
SingleApplies == { "apply_alt", "apply_filename" }

\* the handlers that call apply_template_to_image for every image
BulkAltApplies == { "bulk_alt", "bulk_alt_selected" }

\* the images of all products of a list, in order
RECURSIVE AllImages(_)
AllImages(list) ==
    IF list = << >> THEN << >> ELSE Head(list).images \o AllImages(Tail(list))

\* the images a bulk alt text handler went over
BulkImages == IF last.op = "bulk_alt" THEN Current.images ELSE AllImages(products)

\* the handler that ran was given the id of a template its pool does not hold
Dangling(op, id) ==
    \/ op \in { "apply_alt", "bulk_alt", "bulk_alt_selected" } /\ ~Live(templates, id)
    \/ op \in { "apply_filename", "bulk_filename" } /\ ~Live(filename_templates, id)

\* the odd positions of a trace
Odd(trace) == { k \in 1..Len(trace) : k % 2 = 1 }

\* the k-th entry of the trace is a local write and the next entry is the
\* remote update of the same field of the same image with the same value
Paired(trace, k) ==
    /\ k < Len(trace)
    /\ trace[k].ev = "set"
    /\ trace[k + 1].ev = "push"
    /\ trace[k + 1].image = NumericId(trace[k].image)
    /\ trace[k + 1].field = trace[k].field
    /\ trace[k + 1].value = trace[k].value
    /\ trace[k + 1].ok \in BOOLEAN

\* the position of the first failed remote update in a trace, 0 when none failed
RECURSIVE FirstFailure(_, _)
FirstFailure(trace, k) ==
    IF k > Len(trace) THEN 0
    ELSE IF trace[k].ev = "push" /\ ~trace[k].ok THEN k
    ELSE FirstFailure(trace, k + 1)

\* C1: in every reachable state of the template store, no two live templates
\* of the same pool (alt text pool, filename pool) have the same id
C1_LiveIdsUnique == UniqueIds(templates) /\ UniqueIds(filename_templates)

\* C2: the images of one product that had the same filename template applied
\* hold pairwise different filenames
C2_SameTemplateDistinctFilenames ==
    \A p \in 1..Len(products) :
        \A i, j \in 1..Len(products[p].images) :
            (/\ i # j
             /\ products[p].images[i].applied_filename_template # None
             /\ products[p].images[i].applied_filename_template =
                    products[p].images[j].applied_filename_template)
            => products[p].images[i].filename # products[p].images[j].filename

\* C2 witness: the flat template was applied to both of the first two images
\* of a product
C2_FlatOnTwoImages ==
    /\ last.op \in { "apply_filename", "bulk_filename" }
    /\ \E p \in 1..Len(products) :
         /\ Len(products[p].images) >= 2
         /\ products[p].images[1].applied_filename_template = FlatTemplate.id
         /\ products[p].images[2].applied_filename_template = FlatTemplate.id

C4_RejectedCreateChangesNothing ==
    [][ (/\ last'.op \in { "add_template", "add_filename_template" }
         /\ (last'.a \in { Empty, None } \/ last'.b \in { Empty, None }))
        => (/\ last'.msg = "error"
            /\ templates' = templates
            /\ filename_templates' = filename_templates) ]_vars

\* C4 witness: a create with an empty name and a template string was turned
\* down while the pool held templates
C4_CreateTurnedDown ==
    /\ last.op = "add_template"
    /\ last.a = Empty
    /\ last.b # Empty
    /\ last.msg = "error"
    /\ templates # << >>

\* C5: a Save for an id that the pool does not hold is not reported as a
\* successful update
C5_SaveOfMissingIdNotSuccess ==
    (last.op = "save" /\ ~Live(templates, last.ret)) => last.msg # "success"

\* C6: an apply with a template id that its pool does not hold returns "",
\* changes no image and sends no remote update
C6_DanglingApplyDoesNothing ==
    [][ Dangling(last'.op, last'.b)
        => (/\ last'.ret = Empty
            /\ last'.trace = << >>
            /\ products' = products
            /\ current_product' = current_product) ]_vars

\* C6 witness: an apply with an id that no template has, to an image that
\* names a template applied to it before
C6_DanglingApplyOnAppliedImage ==
    /\ last.op = "apply_alt"
    /\ ~Live(templates, last.b)
    /\ ImagePos(Current.images, last.a) # 0
    /\ Current.images[ImagePos(Current.images, last.a)].applied_template # None

\* C7: Delete removes the template it was asked to remove and nothing else:
\* the others keep their order, the filename pool and every image stay
C7_DeleteRemovesOnlyThatTemplate ==
    [][ last'.op = "delete"
        => (/\ \E i \in 1..Len(templates) :
                  /\ templates[i].id = last'.ret
                  /\ Len(templates') = Len(templates) - 1
                  /\ \A j \in 1..Len(templates') :
                        templates'[j] = templates[IF j < i THEN j ELSE j + 1]
            /\ filename_templates' = filename_templates
            /\ products' = products
            /\ current_product' = current_product) ]_vars

\* C7 witness: the first of two templates was deleted while an image still
\* names it as its applied template
C7_StaleReferenceAfterDelete ==
    /\ last.op = "delete"
    /\ templates # << >>
    /\ ~Live(templates, last.ret)
    /\ \E p \in 1..Len(products) : \E i \in 1..Len(products[p].images) :
          products[p].images[i].applied_template = last.ret

\* C8: after an apply of a live template to an image of the product the image
\* holds the new text (or filename) and the template id, whatever the remote
\* update answered, and the answer is a boolean
C8_LocalUpdateWhateverThePush ==
    /\ (/\ last.op = "apply_alt"
        /\ Live(templates, last.b)
        /\ ImagePos(Current.images, last.a) # 0)
       => LET pos == ImagePos(Current.images, last.a)
              t == templates[FindFrom(templates, last.b, 1)]
          IN /\ \E r \in RandomIds :
                   Current.images[pos].alt = preview_template(t.template, Current, pos - 1, r)
             /\ Current.images[pos].alt = last.ret
             /\ Current.images[pos].applied_template = last.b
             /\ Len(last.trace) = 2
             /\ last.trace[2].ok \in BOOLEAN
    /\ (/\ last.op = "apply_filename"
        /\ Live(filename_templates, last.b)
        /\ ImagePos(Current.images, last.a) # 0)
       => LET pos == ImagePos(Current.images, last.a)
          IN /\ Current.images[pos].filename = last.ret
             /\ HasDot(Current.images[pos].filename)
             /\ Current.images[pos].applied_filename_template = last.b
             /\ Len(last.trace) = 2
             /\ last.trace[2].ok \in BOOLEAN

\* C8 witness: an apply whose remote update failed
C8_ApplyWithFailedPush ==
    /\ last.op = "apply_alt"
    /\ Len(last.trace) = 2
    /\ ~last.trace[2].ok
    /\ last.ret # Empty

\* C9: a single apply that writes an image makes the local write and then
\* one remote update of that field of that image, and nothing more, also
\* when the update fails; an apply that writes nothing makes no remote update
C9_OnePushPerMutation ==
    last.op \in SingleApplies
    => IF Dangling(last.op, last.b) \/ ImagePos(Current.images, last.a) = 0
       THEN last.trace = << >>
       ELSE /\ Len(last.trace) = 2
            /\ Paired(last.trace, 1)
            /\ last.trace[1].image = last.a
            /\ last.trace[1].value = last.ret

\* C9 witness: a filename apply whose remote update failed and was not sent
\* again
C9_FailedPushNotRetried ==
    /\ last.op = "apply_filename"
    /\ Len(last.trace) = 2
    /\ ~last.trace[2].ok

InRange(pct) == pct.den > 0 /\ 0 <= pct.num /\ pct.num <= 100 * pct.den

\* a percentage is exactly 0
IsZero(pct) == pct.den > 0 /\ pct.num = 0

\* C11: for every working set that fetch, apply and clear produce, the
\* empty set and sets with products without images among them, the alt text
\* coverage and the filename coverage lie in [0, 100], and both are exactly
\* 0 when the working set has no image at all
C11_CoverageWithinBounds ==
    LET m == calculate_coverage_metrics(products)
    IN /\ InRange(m.alt_coverage)
       /\ InRange(m.filename_coverage)
       /\ Len(AllImages(products)) = 0 =>
             IsZero(m.alt_coverage) /\ IsZero(m.filename_coverage)

\* an alt text was just cleared in a working set that holds a product
\* without images, and some but not all images have alt text
C11_PartialCoverageAfterClear ==
    /\ last.op = "clear_alt"
    /\ \E p \in 1..Len(products) : products[p].images = << >>
    /\ \E i, j \in 1..Len(AllImages(products)) :
          AllImages(products)[i].alt = Empty /\ AllImages(products)[j].alt # Empty

\* a fetched working set of one product with ten images, the first four of
\* which have alt text
TenImagesFourTexts ==
    << Product(ProductGid(1), << "Blue", " ", "Denim", " ", "Jacket" >>, << "Acme" >>,
               << "Jacket" >>, << >>,
               [i \in 1..10 |-> Image(ImageGid(i), IF i <= 4 THEN << "Old" >> ELSE Empty)]) >>

\* C12: the aggregate metrics count every image of the working set in
\* total_images, count an image as having alt text exactly when its alt is
\* not empty and as having a filename exactly when its
\* applied_filename_template is not None, whatever its filename is, and each
\* percentage is count / total * 100; ten images of which four have alt
\* text give 10, 4 and 40.0
C12_AggregateCounts ==
    LET m == calculate_coverage_metrics(products)
        all == AllImages(products)
        ten == calculate_coverage_metrics(TenImagesFourTexts)
    IN /\ m.total_images = Len(all)
       /\ m.images_with_alt = Cardinality({ i \in 1..Len(all) : all[i].alt # Empty })
       /\ m.images_with_filename =
             Cardinality({ i \in 1..Len(all) : all[i].applied_filename_template # None })
       /\ Len(all) > 0 =>
             /\ m.alt_coverage.num * Len(all) = m.images_with_alt * 100 * m.alt_coverage.den
             /\ m.filename_coverage.num * Len(all) =
                   m.images_with_filename * 100 * m.filename_coverage.den
       /\ ten.total_images = 10
       /\ ten.images_with_alt = 4
       /\ ten.alt_coverage.num = 40 * ten.alt_coverage.den

\* a filename template was just cleared: an image keeps its filename but has
\* no applied_filename_template, while another image has alt text
C12_FilenameKeptAfterClear ==
    /\ last.op = "clear_filename"
    /\ \E i, j \in 1..Len(AllImages(products)) :
          /\ AllImages(products)[i].filename # NoKey
          /\ AllImages(products)[i].applied_filename_template = None
          /\ AllImages(products)[j].alt # Empty

\* the sum of the field of the per-product coverage over the products from
\* the p-th on
RECURSIVE SumOfProducts(_, _, _)
SumOfProducts(list, field, p) ==
    IF p > Len(list) THEN 0
    ELSE product_coverage(list[p])[field] + SumOfProducts(list, field, p + 1)

\* C13: the coverage of one product follows the rules of the aggregate
\* (every image counts in the total, alt text counts when not empty, a
\* filename counts when applied_filename_template is not None, percentage =
\* count / total * 100), both percentages of a product without images are
\* 0, and the aggregate total and counts are the sums of the per-product
\* ones
C13_PerProductCoverage ==
    /\ \A p \in 1..Len(products) :
          LET c == product_coverage(products[p])
              images == products[p].images
          IN /\ c.total_images = Len(images)
             /\ c.images_with_alt =
                   Cardinality({ i \in 1..Len(images) : images[i].alt # Empty })
             /\ c.images_with_filename =
                   Cardinality({ i \in 1..Len(images) :
                                   images[i].applied_filename_template # None })
             /\ InRange(c.alt_coverage) /\ InRange(c.filename_coverage)
             /\ IF Len(images) = 0
                THEN IsZero(c.alt_coverage) /\ IsZero(c.filename_coverage)
                ELSE /\ c.alt_coverage.num * Len(images) =
                           c.images_with_alt * 100 * c.alt_coverage.den
                     /\ c.filename_coverage.num * Len(images) =
                           c.images_with_filename * 100 * c.filename_coverage.den
    /\ LET m == calculate_coverage_metrics(products)
       IN /\ m.total_images = SumOfProducts(products, "total_images", 1)
          /\ m.images_with_alt = SumOfProducts(products, "images_with_alt", 1)
          /\ m.images_with_filename = SumOfProducts(products, "images_with_filename", 1)

\* a filename template was just applied in a working set with a product
\* without images and a product of which some but not all images have alt
\* text
C13_MixedProductsAfterApply ==
    /\ last.op = "apply_filename"
    /\ \E p, q \in 1..Len(products) :
          /\ products[p].images = << >>
          /\ \E i, j \in 1..Len(products[q].images) :
                /\ products[q].images[i].alt # Empty
                /\ products[q].images[j].alt = Empty
                /\ products[q].images[j].applied_filename_template # None

\* the filenames the most recent handler gave to images, each with the
\* position of its image: one for "Apply", one per image for a bulk run
FilenamesGiven ==
    IF last.op = "apply_filename" /\ last.ret # Empty
    THEN { << ImagePos(Current.images, last.a), last.ret >> }
    ELSE IF last.op = "bulk_filename"
    THEN { << (k + 1) \div 2, last.trace[k].value >> : k \in Odd(last.trace) }
    ELSE { }

\* the filename template of the most recent filename handler, rendered for
\* the image at position i (from 1) of the product being viewed; the
\* templates of the render specification have no {id}
RenderedFilename(i) ==
    Substitute(filename_templates[FindFrom(filename_templates, last.b, 1)].template,
               FilenameVariables(Current, i - 1, << "q0m9" >>))

\* the number of tokens of s that hold a "."
DotCount(s) == Cardinality({ i \in 1..Len(s) : HasDotTok(s[i]) })

\* C14: a filename starts with the rendered template; when the rendered
\* text holds no "." the filename has exactly one ".", the ".jpg" at its
\* end, and when it holds one, nothing with a "." is added; the template
\* "{vendor}-{title}-{index}" on the first image of "Blue Denim Jacket" by
\* "Acme" gives acme-blue-denim-jacket-1 with .jpg at the end
C14_DefaultExtension ==
    \A g \in FilenamesGiven :
       LET rendered == RenderedFilename(g[1])
           name == g[2]
       IN /\ Len(name) >= Len(rendered)
          /\ SubSeq(name, 1, Len(rendered) - DotCount(rendered)) =
                SubSeq(rendered, 1, Len(rendered) - DotCount(rendered))
          /\ IF DotCount(rendered) = 0
             THEN DotCount(name) = 1 /\ name[Len(name)] = ".jpg"
             ELSE DotCount(name) = DotCount(rendered) /\ name[Len(name)] # ".jpg"
          /\ ( /\ Current.title = << "Blue", " ", "Denim", " ", "Jacket" >>
               /\ Current.vendor = << "Acme" >>
               /\ last.b = RenderFilenameId
               /\ filename_templates[Len(filename_templates)].template =
                     << "{vendor}", "-", "{title}", "-", "{index}" >>
               /\ g[1] = 1 ) =>
                /\ SubSeq(name, 1, 9) =
                      << "acme", "-", "blue", "-", "denim", "-", "jacket", "-", "1" >>
                /\ name[Len(name)] = ".jpg"

\* "Apply" gave the first image of the jacket the filename
\* acme-blue-denim-jacket-1.jpg
C14_JacketFirstImage ==
    /\ last.op = "apply_filename"
    /\ last.a = ImageGid(1)
    /\ last.ret = << "acme", "-", "blue", "-", "denim", "-", "jacket", "-", "1", ".jpg" >>

\* the value the variables dict holds for the key
ValueOf(variables, key) ==
    variables[CHOOSE k \in 1..Len(variables) : variables[k][1] = key][2]

\* the placeholders whose values the filename mode normalizes
NormalizedKeys ==
    { "{title}", "{vendor}", "{brand}", "{type}", "{category}", "{tags}", "{store}",
      "{sku}", "{color}" }

\* the text has no white space and no upper-case letter
IsSlug(s) == \A i \in 1..Len(s) : ~IsSpace(s[i]) /\ LowerTok(s[i]) = s[i]

\* C15: in filename mode the value substituted for each of {title},
\* {vendor}, {brand}, {type}, {category}, {tags}, {store}, {sku} and {color}
\* has no white space and no upper-case letter
C15_SubstitutedValuesAreSlugs ==
    \A g \in FilenamesGiven :
       LET template == filename_templates[FindFrom(filename_templates, last.b, 1)].template
           variables == FilenameVariables(Current, g[1] - 1, << "q0m9" >>)
       IN \A i \in 1..Len(template) :
             template[i] \in NormalizedKeys => IsSlug(ValueOf(variables, template[i]))

\* the alt texts the most recent handler rendered, each with the position
\* of its image: the preview renders for the first image
AltTextsGiven ==
    IF last.op = "preview" THEN { << 1, last.ret >> }
    ELSE IF last.op = "apply_alt" /\ Live(templates, last.b)
              /\ ImagePos(Current.images, last.a) # 0
    THEN { << ImagePos(Current.images, last.a), last.ret >> }
    ELSE IF last.op = "bulk_alt"
    THEN { << (k + 1) \div 2, last.trace[k].value >> : k \in Odd(last.trace) }
    ELSE { }

\* the alt text template of the most recent alt text handler
AltTemplateGiven == templates[FindFrom(templates, last.b, 1)].template

\* the keys of a variables dict
KeysOf(variables) == { variables[k][1] : k \in 1..Len(variables) }

\* every token of the template that is a key replaced by the value of the
\* key, all at once, from the i-th token on
RECURSIVE ExpandedOnce(_, _, _)
ExpandedOnce(template, variables, i) ==
    IF i > Len(template) THEN Empty
    ELSE (IF template[i] \in KeysOf(variables) THEN ValueOf(variables, template[i])
          ELSE << template[i] >>) \o ExpandedOnce(template, variables, i + 1)

\* the items of a variables dict in the opposite order
Reversed(variables) == [k \in 1..Len(variables) |-> variables[Len(variables) + 1 - k]]

\* C16: an alt text does not depend on the order in which the placeholders
\* are substituted, and a substituted value is not expanded again: the
\* text is the template with every placeholder replaced by its value, also
\* when the title itself holds the text of a placeholder
C16_ValuesExpandedOnce ==
    \A g \in AltTextsGiven :
       LET variables == DescriptiveVariables(Current, g[1] - 1, << "x7k2" >>)
       IN /\ g[2] = ExpandedOnce(AltTemplateGiven, variables, 1)
          /\ g[2] = Substitute(AltTemplateGiven, Reversed(variables))

\* the template rendered token by token, from the i-th token on: a token
\* that is a key gives what the renderer makes of that token alone, any
\* other token gives itself
RECURSIVE TokenByToken(_, _, _)
TokenByToken(template, variables, i) ==
    IF i > Len(template) THEN Empty
    ELSE (IF template[i] \in KeysOf(variables)
          THEN Substitute(<< template[i] >>, variables)
          ELSE << template[i] >>) \o TokenByToken(template, variables, i + 1)

\* no value of the variables dict holds the text of a key
PlainValues(variables) ==
    \A k \in 1..Len(variables) : \A i \in 1..Len(variables[k][2]) :
       variables[k][2][i] \notin KeysOf(variables)

\* C17: in an alt text every occurrence of every recognized placeholder of
\* the template is replaced, by the value of the placeholder, the literal
\* text of the template is unchanged and a token in braces that is no
\* recognized placeholder stays as written
C17_EveryOccurrenceReplaced ==
    \A g \in AltTextsGiven :
       LET variables == DescriptiveVariables(Current, g[1] - 1, << "x7k2" >>)
       IN /\ g[2] = TokenByToken(AltTemplateGiven, variables, 1)
          /\ PlainValues(variables) => g[2] = ExpandedOnce(AltTemplateGiven, variables, 1)

\* "Apply" rendered the template "{title} / {title} {foo} by {vendor}" for
\* the jacket
C17_TitleTwiceAndUnknownToken ==
    /\ last.op = "apply_alt"
    /\ last.ret = << "Blue", " ", "Denim", " ", "Jacket", " / ",
                     "Blue", " ", "Denim", " ", "Jacket", " ", "{foo}", " by ", "Acme" >>

\* the template with {brand} and {vendor} exchanged and {category} and
\* {type} exchanged
SwapAliases(template) ==
    [i \in 1..Len(template) |->
        CASE template[i] = "{brand}" -> "{vendor}"
          [] template[i] = "{vendor}" -> "{brand}"
          [] template[i] = "{category}" -> "{type}"
          [] template[i] = "{type}" -> "{category}"
          [] OTHER -> template[i]]

BulkInSequenceOrder ==
    last.op \in { "bulk_alt", "bulk_filename" } =>
       /\ Len(last.trace) = 2 * Len(Current.images)
       /\ \A k \in Odd(last.trace) :
             /\ last.trace[k].ev = "set"
             /\ last.trace[k].image = Current.images[(k + 1) \div 2].id

\* C19: for the image at zero-based position i, {index} is the decimal
\* text of i + 1, in alt texts and in filenames; "Apply to All Images" with
\* a template that holds {index} numbers the images 1, 2, ..., N in their
\* order
C19_IndexIsPositionPlusOne ==
    /\ BulkInSequenceOrder
    /\ \A g \in AltTextsGiven :
          AltTemplateGiven = IndexStrings.alt => g[2] = << "Image ", Str(g[1]) >>
    /\ \A g \in FilenamesGiven :
          filename_templates[FindFrom(filename_templates, last.b, 1)].template =
             IndexStrings.filename =>
                SubSeq(g[2], 1, 9) =
                   << "acme", "-", "blue", "-", "denim", "-", "jacket", "-", Str(g[1]) >>
    /\ ( last.op = "bulk_alt" /\ AltTemplateGiven = IndexStrings.alt ) =>
          \A i \in 1..Len(Current.images) :
             Current.images[i].alt = << "Image ", Str(i) >>

\* "Apply to All Images" numbered the alt texts of the jacket, whose second
\* image has the filename acme-blue-denim-jacket-2.jpg
C19_BulkRunNumbersImages ==
    /\ last.op = "bulk_alt"
    /\ Len(Current.images) >= 2
    /\ Current.images[1].alt = << "Image ", "1" >>
    /\ Current.images[2].alt = << "Image ", "2" >>
    /\ Current.images[2].filename =
          << "acme", "-", "blue", "-", "denim", "-", "jacket", "-", "2", ".jpg" >>

\* the positions of the title at which a word stands that is, in lower
\* case, a colour name
ColourWordsAt(title) ==
    { i \in 1..Len(title) :
         /\ LowerTok(title[i]) \in common_colors
         /\ i = 1 \/ IsSpace(title[i - 1])
         /\ i = Len(title) \/ IsSpace(title[i + 1]) }

\* the first of them in lower case, the empty text when there is none
FirstColourWord(title) ==
    IF ColourWordsAt(title) = { } THEN Empty
    ELSE << LowerTok(title[CHOOSE i \in ColourWordsAt(title) :
                              \A j \in ColourWordsAt(title) : i <= j]) >>

\* C20: {color} is the first word of the title, from the left, words being
\* separated by white space, that is a colour name whatever its case, in
\* lower case, and the empty text when the title has no such word: "red"
\* for "Red Cotton Scarf", "" for "Cotton Scarf"
C20_ColorIsFirstColourWord ==
    /\ \A g \in AltTextsGiven :
          /\ ValueOf(DescriptiveVariables(Current, g[1] - 1, << "x7k2" >>), "{color}") =
                FirstColourWord(Current.title)
          /\ AltTemplateGiven = ColorStrings.alt =>
                /\ g[2] = FirstColourWord(Current.title) \o << " " >> \o Current.title
                /\ Current.title = << "Red", " ", "Cotton", " ", "Scarf" >> =>
                      g[2] = << "red", " ", "Red", " ", "Cotton", " ", "Scarf" >>
                /\ Current.title = << "Cotton", " ", "Scarf" >> =>
                      g[2] = << " ", "Cotton", " ", "Scarf" >>
    /\ \A g \in FilenamesGiven :
          ValueOf(FilenameVariables(Current, g[1] - 1, << "q0m9" >>), "{color}") =
             FirstColourWord(Current.title)

\* "Apply" rendered "{color} {title}" for the title with the words RED and
\* blue: the colour is red
C20_FirstOfTwoColours ==
    /\ last.op = "apply_alt"
    /\ last.ret = << "red", " ", "Cotton", "\t", "RED", " ", "blue", " ", "Scarf" >>

\* C21: a Save that finds the id of the edit session in the pool replaces
\* the name and the template string of one template with that id and
\* nothing else: the id and the position of that template, every other
\* template of the pool and the filename pool stay as they were
C21_SaveChangesOneTemplateInPlace ==
    [][ ( /\ last'.op = "save"
          /\ last'.msg = "success"
          /\ Live(templates, edit_template_id) ) =>
            /\ Len(templates') = Len(templates)
            /\ \E k \in 1..Len(templates) :
                  /\ templates[k].id = edit_template_id
                  /\ templates'[k] = Template(edit_template_id, last'.a, last'.b)
                  /\ \A j \in 1..Len(templates) : j # k => templates'[j] = templates[j]
            /\ filename_templates' = filename_templates ]_vars

\* a Save gave the first sample of a pool of two templates a new name and a
\* new template string
C21_SampleSavedWithNewText ==
    /\ last.op = "save"
    /\ last.msg = "success"
    /\ last.ret = << "template_basic" >>
    /\ Len(templates) >= 2
    /\ templates[1] = Template(<< "template_basic" >>, << "Flat" >>,
                               << "{title}", " - ", "{vendor}", " product" >>)

\* C22: for a fetched product {sku} is the SKU codes of its variants in the
\* shop, joined with ", " in variant order, and the empty text only when no
\* variant has one
C22_SkuListsVariantSkus ==
    \A g \in AltTextsGiven :
       LET skus == Join(<< ",", " " >>, RemoteVariantSkus(Current.id))
       IN AltTemplateGiven = SkuStrings.alt =>
             /\ ValueOf(DescriptiveVariables(Current, g[1] - 1, << "x7k2" >>), "{sku}") = skus
             /\ g[2] = Current.title \o << " (" >> \o skus \o << ")" >>

\* C23: every local write of "Apply" (alt text, filename) and of "Clear"
\* (alt text, filename) comes with a remote update for the same image in
\* the same handler
C23_EveryChangeIsPushed ==
    last.op \in { "apply_alt", "apply_filename", "clear_alt", "clear_filename" } =>
       \A k \in 1..Len(last.trace) :
          last.trace[k].ev = "set" =>
             \E j \in 1..Len(last.trace) :
                /\ last.trace[j].ev = "push"
                /\ last.trace[j].image = NumericId(last.trace[k].image)

\* C24: in the state that "Reset App" and the script run after it leave,
\* every session variable has its initial default: not connected, no
\* products, both pools empty, no current product, the dashboard tab, and
\* no stored shop URL, no access token and no edit session
C24_ResetRestoresDefaults ==
    last.op = "reset" =>
        /\ shopify_connected = FALSE
        /\ products = << >>
        /\ templates = << >>
        /\ filename_templates = << >>
        /\ current_product = NoProduct
        /\ active_tab = "dashboard"
        /\ shop_url = NoKey
        /\ access_token = NoKey
        /\ edit_template_id = NoKey
        /\ edit_template_name = NoKey
        /\ edit_template_string = NoKey

\* "Reset App" was pressed, which the debug tab offers to a connected
\* session only; the credentials that session stored are gone
C24_ResetOfConnectedSession ==
    /\ last.op = "reset"
    /\ last.msg = "success"
    /\ ~shopify_connected
    /\ shop_url = NoKey

\* C25: whenever a product is open in the detail view, current_product is
\* one of the dicts of the working set st.session_state.products, so that
\* what the detail view changes is what the coverage aggregator reads
C25_CurrentProductIsInWorkingSet ==
    current_product.kind # "none" =>
        \E i \in 1..Len(products) : current_product = Ref(i)

\* C26: a connection attempt that fails while the session is connected
\* leaves the stored shop URL and access token as they were, so that the
\* stored pair stays the one whose connection test succeeded
C26_FailedAttemptKeepsVerifiedPair ==
    [][ ( /\ shopify_connected
          /\ last'.op = "connect"
          /\ last'.msg = "error" ) =>
            /\ shop_url' = shop_url
            /\ access_token' = access_token ]_vars

\* the images of the working set and of the product of the detail view
ImagesInSession ==
    UNION { { products[k].images[i] : i \in 1..Len(products[k].images) } :
            k \in 1..Len(products) }
    \cup ( IF current_product.kind = "none" THEN { }
           ELSE { Current.images[i] : i \in 1..Len(Current.images) } )

\* C27: an image that refers to a filename template has a filename: "Apply"
\* sets the filename and the reference together, and "Clear" sets the
\* reference to null and nothing else
C27_ReferenceImpliesFilename ==
    /\ \A img \in ImagesInSession :
          img.applied_filename_template # None =>
             img.filename # NoKey /\ img.filename # Empty
    /\ last.op = "clear_filename" =>
          \A k \in 1..Len(last.trace) :
             last.trace[k].field = "applied_filename_template" /\ last.trace[k].value = None

\* after an apply and the Clear of another image, one image of the product
\* has a filename and its reference, the cleared one a filename and none
C27_OneAppliedOneCleared ==
    /\ last.op = "clear_filename"
    /\ current_product.kind # "none"
    /\ \E i, j \in 1..Len(Current.images) :
          /\ Current.images[i].applied_filename_template # None
          /\ Current.images[i].filename # NoKey
          /\ Current.images[j].applied_filename_template = None
          /\ Current.images[j].filename # NoKey

\* the template string has no {id}
WithoutId(template) == \A k \in 1..Len(template) : template[k] # "{id}"

\* the alt text preview shown for an image is what "Apply" of the same
\* template stores for that image
AltPreviewIsApplied ==
    ( /\ last.op = "quick_preview"
      /\ WithoutId(templates[FindFrom(templates, last.b, 1)].template) ) =>
        \A k \in 1..Len(products) :
           ImagePos(products[k].images, last.a) # 0 =>
              last.ret = apply_template_to_image(products[k], last.a, last.b, << "x7k2" >>,
                                                 "image", templates, TRUE).ret

\* the filename preview shown for an image is the filename that "Apply" of
\* the same template renders for that image, before the uniqueness guard
FilenamePreviewIsApplied ==
    ( /\ last.op = "quick_preview_filename"
      /\ WithoutId(filename_templates[FindFrom(filename_templates, last.b, 1)].template) ) =>
        \A k \in 1..Len(products) :
           LET i == ImagePos(products[k].images, last.a)
               rendered == Substitute(
                              filename_templates[FindFrom(filename_templates, last.b, 1)].template,
                              FilenameVariables(products[k], i - 1, << "q0m9" >>))
           IN i # 0 =>
                 last.ret = IF HasDot(rendered) THEN rendered ELSE rendered \o << ".jpg" >>

\* C28: for a template without {id}, the preview shown for the image at
\* position i equals what applying the template to that image stores: the
\* alt text for an alt text template, and for a filename template the
\* filename before the uniqueness guard
C28_PreviewEqualsApplied == AltPreviewIsApplied /\ FilenamePreviewIsApplied

\* C29: after "Apply" of a template of the alt text pool to an image of the
\* product of the detail view, the coverage aggregator counts that image:
\* the working set holds the image with a non-empty alt text
C29_AppliedImageIsCounted ==
    ( /\ last.op = "apply_alt"
      /\ Live(templates, last.b)
      /\ ImagePos(Current.images, last.a) # 0 ) =>
        \E k \in 1..Len(products) : \E i \in 1..Len(products[k].images) :
           /\ products[k].images[i].id = last.a
           /\ products[k].images[i].alt # Empty

\* the three keys of the edit session are all present or all absent
EditKeysTogether ==
    /\ (edit_template_id = NoKey) = (edit_template_name = NoKey)
    /\ (edit_template_id = NoKey) = (edit_template_string = NoKey)

\* C30: the three keys of the edit session are all present or all absent,
\* and while an edit session is open edit_template_id is the id of a
\* template of the alt text pool
C30_EditSessionNamesLiveTemplate ==
    /\ EditKeysTogether
    /\ edit_template_id # NoKey => Live(templates, edit_template_id)

====
